---- MODULE Spec2Model ----
(***************************************************************************)
(* Session / drop lifecycle of gtm-factory.                                 *)
(*                                                                         *)
(*   - the durable store written by core/ui/state_manager.py (StateManager *)
(*     and its _atomic_write) and by the generators / researcher,          *)
(*   - the Streamlit session flow of ui/app.py, ui/components/             *)
(*     chat_interface.py and ui/components/progress_display.py,            *)
(*   - the concurrent researcher tasks of core/ui/adapters/                *)
(*     researcher_adapter.py and core/researcher/general_researcher.py.    *)
(*                                                                         *)
(* Two specifications share the variables:                                 *)
(*   Spec       the application flow (script runs, research, synthesis),   *)
(*   SpecStore  the StateManager API called with arbitrary arguments, each *)
(*              write split into the steps of _atomic_write, with a        *)
(*              process crash possible between any two steps.              *)
(* FairSpec is Spec with weak fairness on the steps the program itself     *)
(* takes (not on the user's clicks).                                       *)
(*                                                                         *)
(* Drop ids "drop-N" are the numbers N; researcher ids "researcher-N" are  *)
(* the numbers N; 0 stands for None / no id.                               *)
(***************************************************************************)
EXTENDS Integers, Sequences, FiniteSets, TLC

\* ------------------------------------------------------------------ bounds
MaxDrops == 2
MaxResearchers == 2
MaxClock == 2
MaxTurns == 2
MaxChunks == 2
MaxReplyLen == 4
MaxPlanRequests == 1
MaxMessages == 2
MaxChars == 8
MaxOther == 4
TrackerMaxTokens == 4
MaxCompactMessages == 7
MaxKeepRecent == 1
MaxSessionMessages == 5

\* ------------------------------------------------------- program constants
max_retries == 2

Drops == 1..MaxDrops
Rids == 1..MaxResearchers

VARIABLES
    fs,                   \* path -> file (the session directory on disk)
    drop_dirs,            \* drops/drop-N directories that exist
    now,                  \* datetime.now(), a logical clock
    wr,                   \* SpecStore: the StateManager call in progress
    session_started,      \* st.session_state.session_name_generated (adapters exist)
    drop_counter,         \* st.session_state.drop_counter
    current_plan,         \* st.session_state.current_plan
    current_drop_id,      \* st.session_state.current_drop_id (0 = None)
    research_in_progress, \* st.session_state.research_in_progress
    research_complete,    \* st.session_state.research_complete
    cancel_research,      \* st.session_state.cancel_research
    pc,                   \* position of the Streamlit script
    tasks,                \* the coroutines of execute_research_plan, by plan index
    statuses,             \* ResearcherAdapter.statuses, by researcher id
    assignment_failed,    \* history: drop -> some assignment failed definitively
    outputs,              \* the list execute_research_plan returned (last use: line 115)
    system_errors,        \* tasks reported by on_progress("system", FAILED, "Research error: ...")
    drop_context_turns,   \* the turns _inject_drop_context appended to the HQ conversation
    session_messages,     \* SpecAutosave: st.session_state.messages
    conversation_history, \* SpecChat: HQOrchestrator.conversation_history
    stream,               \* SpecChat: the chat_stream generator being consumed
    token_counts,         \* SpecTracker: ContextTracker.token_counts
    ret                   \* the last library call made directly: its input and what it gave

storeVars == <<fs, drop_dirs, now>>
sessionVars == <<session_started, drop_counter, current_plan, current_drop_id,
                 research_in_progress, research_complete, cancel_research>>
flowVars == <<pc, tasks, statuses, assignment_failed, outputs, system_errors>>
hqVars == <<conversation_history, stream, token_counts, ret>>
libVars == <<drop_context_turns, session_messages, hqVars>>
appVars == <<sessionVars, flowVars, libVars>>
vars == <<storeVars, wr, appVars>>

\* ------------------------------------------------------------- drop states
\* class DropState(str, Enum): the enum has no "cancelled" member.
DropState == {"proposed", "researching", "synthesizing", "complete", "failed"}

\* The values the application passes to update_drop_state.
SystemStates == DropState \cup {"cancelled"}

IncompleteStates == {"proposed", "researching", "synthesizing"}
TerminalStates == {"complete", "failed", "cancelled"}

\* ------------------------------------------------------------------- paths
SessionFile(name) == [drop |-> 0, name |-> name, rid |-> 0, tmp |-> FALSE]
DropFile(d, name) == [drop |-> d, name |-> name, rid |-> 0, tmp |-> FALSE]
OutputFile(d, r) == [drop |-> d, name |-> "output.md", rid |-> r, tmp |-> FALSE]

conversation_temp_file == SessionFile("conversation-temp.md")
session_state_file == SessionFile("session-state.json")
latest_file == SessionFile("latest.md")
session_metadata_file == SessionFile("session-metadata.json")
state_file(d) == DropFile(d, "drop-state.json")
history_file(d) == DropFile(d, "conversation-history.md")
user_context_file(d) == DropFile(d, "user-context.md")
critical_file(d) == DropFile(d, "critical-analysis.md")
session_user_context_file == SessionFile("user-context.md")
session_history_file == SessionFile("conversation-history.md")
drop_metadata_file(d) == DropFile(d, "drop-metadata.json")

\* tmp_file = file_path.with_suffix(file_path.suffix + '.tmp')
MutTmpInPlace(p) == p
TmpPath(p) == [p EXCEPT !.tmp = TRUE]

FinalPaths ==
    {conversation_temp_file, session_state_file, latest_file, session_metadata_file}
    \cup {state_file(d) : d \in Drops} \cup {history_file(d) : d \in Drops}
    \cup {user_context_file(d) : d \in Drops} \cup {critical_file(d) : d \in Drops}
    \cup {OutputFile(d, r) : d \in Drops, r \in Rids}
    \cup {session_user_context_file, session_history_file}
    \cup {drop_metadata_file(d) : d \in Drops}

AtomicPaths ==
    {conversation_temp_file, session_state_file}
    \cup {state_file(d) : d \in Drops} \cup {history_file(d) : d \in Drops}

Paths == FinalPaths \cup {[p EXCEPT !.tmp = TRUE] : p \in AtomicPaths}

\* ------------------------------------------------------------------- files
Absent == [kind |-> "absent"]
Empty == [kind |-> "empty"]
Partial(c) == [kind |-> "partial", data |-> c]
Full(c) == [kind |-> "full", data |-> c]

Exists(f, p) == f[p].kind # "absent"

\* ------------------------------------------------------- conversation text
Msg(role, content) == [role |-> role, content |-> content]

\* The message lists handed to autosave / promote (content = its lines).
MessageLists ==
    { <<Msg("user", <<"hello">>)>>,
      <<Msg("user", <<"hello">>), Msg("assistant", <<"hi", "there">>)>> }

RoleHeader(role) ==
    CASE role = "user" -> "## USER"
      [] role = "assistant" -> "## ASSISTANT"
      [] OTHER -> "## OTHER"

RECURSIVE FormatMessages(_)
FormatMessages(ms) ==
    IF ms = <<>> THEN <<>>
    ELSE <<RoleHeader(Head(ms).role), "">> \o Head(ms).content \o <<"">>
         \o FormatMessages(Tail(ms))

\* The text as the sequence of its lines (text.split("\n")).
format_conversation_md(messages) ==
    [lines |-> <<"# Conversation History", "">> \o FormatMessages(messages)]

\* ------------------------------------------------------------ StateManager
Tick == IF now < MaxClock THEN now + 1 ELSE now

\* _atomic_write, start to end: the destination holds the content, no tmp is left.
atomic_write(f, p, c) ==
    [f EXCEPT ![TmpPath(p)] = Absent, ![p] = Full(c)]

\* The JSON object update_drop_state writes, from the file it finds.
MutStateDataFresh(f, d, s, t) ==
    [drop_id |-> d, created_at |-> t, state |-> s, updated_at |-> t]
StateData(f, d, s, t) ==
    IF Exists(f, state_file(d))
    THEN [f[state_file(d)].data EXCEPT !.state = s, !.updated_at = t]
    ELSE [drop_id |-> d, created_at |-> t, state |-> s, updated_at |-> t]

update_drop_state(f, d, s, t) == atomic_write(f, state_file(d), StateData(f, d, s, t))

\* "None", the state, or the exception raised.
get_drop_state(f, d) ==
    IF ~Exists(f, state_file(d)) THEN "None"
    ELSE IF f[state_file(d)].kind # "full" THEN "JSONDecodeError"
    ELSE IF f[state_file(d)].data.state \notin DropState THEN "ValueError"
    ELSE f[state_file(d)].data.state

\* The drops find_incomplete_drops reads: directories holding a drop-state.json.
DropsWithState(f, dirs) == {d \in dirs : Exists(f, state_file(d))}

find_incomplete_drops(f, dirs) ==
    IF \E d \in DropsWithState(f, dirs) : f[state_file(d)].kind # "full"
    THEN [raised |-> "JSONDecodeError", drops |-> {}]
    ELSE IF \E d \in DropsWithState(f, dirs) : f[state_file(d)].data.state \notin DropState
    THEN [raised |-> "ValueError", drops |-> {}]
    ELSE [raised |-> "no",
          drops |-> {d \in DropsWithState(f, dirs) :
                        f[state_file(d)].data.state \in IncompleteStates}]

\* The state recorded in drop-state.json ("absent" when there is no file).
PersistedState(d) ==
    IF fs[state_file(d)].kind = "full" THEN fs[state_file(d)].data.state ELSE "absent"

\* ------------------------------------------------- initial state (ui/app.py)
NoPlan == [set |-> FALSE, ids |-> <<>>]
NoCall == [step |-> "idle", op |-> "none", path |-> conversation_temp_file,
           content |-> [none |-> TRUE], before |-> Absent]

\* No chat_stream generator exists; no library call was made.
NoStream == [state |-> "none", assistant_message |-> <<>>, reply |-> <<>>]
NoReturn == [op |-> "none"]

\* ContextTracker.__init__ / reset
InitialTokenCounts ==
    [conversation |-> 0, latest_md |-> 0, critical_analysis_md |-> 0,
     user_context_md |-> 0, other |-> 0]

Init ==
    /\ fs = [p \in Paths |-> Absent]
    /\ drop_dirs = {}
    /\ now = 0
    /\ wr = NoCall
    /\ session_started = FALSE
    /\ drop_counter = 0
    /\ current_plan = NoPlan
    /\ current_drop_id = 0
    /\ research_in_progress = FALSE
    /\ research_complete = FALSE
    /\ cancel_research = FALSE
    /\ pc = "idle"
    /\ tasks = <<>>
    /\ statuses = [r \in Rids |-> "none"]
    /\ assignment_failed = [d \in Drops |-> FALSE]
    /\ outputs = <<>>
    /\ system_errors = {}
    /\ drop_context_turns = <<>>
    /\ session_messages = <<>>
    /\ conversation_history = <<>>
    /\ stream = NoStream
    /\ token_counts = InitialTokenCounts
    /\ ret = NoReturn

\* ---------------------------------------------- SpecStore: StateManager API
\* A call may start when no call of this process is running.
CallableSteps == {"idle", "returned", "killed", "killed_after_return"}

\* The session-state dicts main() saves.
SessionStates ==
    { [research_mode |-> "general", research_flag |-> FALSE, drop_counter |-> 0] }

BeginCall(op, p, c) ==
    /\ wr.step \in CallableSteps
    /\ now < MaxClock
    /\ now' = now + 1
    /\ wr' = [step |-> "called", op |-> op, path |-> p, content |-> c, before |-> fs[p]]
    /\ UNCHANGED <<fs, appVars>>

CallUpdateDropState(d, s) ==
    /\ BeginCall("update_drop_state", state_file(d), StateData(fs, d, s, now))
    /\ drop_dirs' = drop_dirs \cup {d}

CallAutosaveConversation(m) ==
    /\ BeginCall("autosave_conversation", conversation_temp_file, format_conversation_md(m))
    /\ UNCHANGED drop_dirs

CallPromoteConversation(d, m) ==
    /\ BeginCall("promote_conversation_to_drop", history_file(d), format_conversation_md(m))
    /\ drop_dirs' = drop_dirs \cup {d}

CallSaveSessionState(st) ==
    /\ BeginCall("save_session_state", session_state_file, st)
    /\ UNCHANGED drop_dirs

\* tmp_file.write_text(content): open for writing (creates / truncates) ...
TmpOpen ==
    /\ wr.step = "called"
    /\ fs' = [fs EXCEPT ![TmpPath(wr.path)] = Empty]
    /\ wr' = [wr EXCEPT !.step = "opened"]
    /\ UNCHANGED <<drop_dirs, now, appVars>>

\* ... some of the bytes are on disk ...
TmpWriteSome ==
    /\ wr.step = "opened"
    /\ fs' = [fs EXCEPT ![TmpPath(wr.path)] = Partial(wr.content)]
    /\ wr' = [wr EXCEPT !.step = "partial"]
    /\ UNCHANGED <<drop_dirs, now, appVars>>

\* ... all of them are.
TmpWriteAll ==
    /\ wr.step \in {"opened", "partial"}
    /\ fs' = [fs EXCEPT ![TmpPath(wr.path)] = Full(wr.content)]
    /\ wr' = [wr EXCEPT !.step = "written"]
    /\ UNCHANGED <<drop_dirs, now, appVars>>

\* tmp_file.replace(file_path), then the call returns.
TmpReplace ==
    /\ wr.step = "written"
    /\ fs' = [fs EXCEPT ![TmpPath(wr.path)] = Absent, ![wr.path] = fs[TmpPath(wr.path)]]
    /\ wr' = [wr EXCEPT !.step = "returned"]
    /\ UNCHANGED <<drop_dirs, now, appVars>>

\* The process is killed; the files stay as they are.
Crash ==
    /\ wr.step \in {"called", "opened", "partial", "written", "returned"}
    /\ wr' = [wr EXCEPT !.step = IF wr.step = "returned"
                                 THEN "killed_after_return" ELSE "killed"]
    /\ UNCHANGED <<storeVars, appVars>>

NextStore ==
    \/ \E d \in Drops, s \in SystemStates : CallUpdateDropState(d, s)
    \/ \E m \in MessageLists : CallAutosaveConversation(m)
    \/ \E d \in Drops, m \in MessageLists : CallPromoteConversation(d, m)
    \/ \E st \in SessionStates : CallSaveSessionState(st)
    \/ TmpOpen
    \/ TmpWriteSome
    \/ TmpWriteAll
    \/ TmpReplace
    \/ Crash

SpecStore == Init /\ [][NextStore]_vars

\* ------------------------------ SpecArtifacts: writes made with Path.write_text
\* The artifacts written outside StateManager: researcher outputs, latest.md,
\* critical-analysis.md, session-metadata.json, and the research trigger's
\* user-context.md and conversation-history.md.
ArtifactPaths ==
    {latest_file, session_metadata_file}
    \cup {user_context_file(d) : d \in Drops} \cup {history_file(d) : d \in Drops}
    \cup {critical_file(d) : d \in Drops}
    \cup {OutputFile(d, r) : d \in Drops, r \in Rids}

\* path.write_text(content, encoding="utf-8") is called with new content.
CallWriteText(p) ==
    /\ BeginCall("write_text", p, [artifact |-> p.name, version |-> now + 1])
    /\ drop_dirs' = drop_dirs \cup ({p.drop} \ {0})

\* write_text opens the destination itself for writing: it is created / truncated ...
DirectOpen ==
    /\ wr.op = "write_text"
    /\ wr.step = "called"
    /\ fs' = [fs EXCEPT ![wr.path] = Empty]
    /\ wr' = [wr EXCEPT !.step = "opened"]
    /\ UNCHANGED <<drop_dirs, now, appVars>>

\* ... some of the bytes are on disk ...
DirectWriteSome ==
    /\ wr.op = "write_text"
    /\ wr.step = "opened"
    /\ fs' = [fs EXCEPT ![wr.path] = Partial(wr.content)]
    /\ wr' = [wr EXCEPT !.step = "partial"]
    /\ UNCHANGED <<drop_dirs, now, appVars>>

\* ... all of them are, and write_text returns.
DirectWriteAll ==
    /\ wr.op = "write_text"
    /\ wr.step \in {"opened", "partial"}
    /\ fs' = [fs EXCEPT ![wr.path] = Full(wr.content)]
    /\ wr' = [wr EXCEPT !.step = "returned"]
    /\ UNCHANGED <<drop_dirs, now, appVars>>

NextArtifacts ==
    \/ \E p \in ArtifactPaths : CallWriteText(p)
    \/ DirectOpen
    \/ DirectWriteSome
    \/ DirectWriteAll
    \/ Crash

SpecArtifacts == Init /\ [][NextArtifacts]_vars

\* ------------------------------------------- properties of the durable store
\* C1: after any update_drop_state(drop, s) the system makes, s being any of
\* proposed, researching, synthesizing, complete, failed and cancelled, stopping
\* the process right after the call and reading get_drop_state(drop) with a fresh
\* StateManager gives s, never another state and never an error.
C1_ReadsBackLastState ==
    (wr.op = "update_drop_state" /\ wr.step \in {"returned", "killed_after_return"})
        => get_drop_state(fs, wr.path.drop) = wr.content.state

\* C2: between calls, find_incomplete_drops returns exactly the drops whose
\* persisted state is proposed, researching or synthesizing, for every mix of
\* persisted drop states (complete, failed and cancelled included).
C2_FindsExactlyIncomplete ==
    wr.step \in CallableSteps =>
        /\ find_incomplete_drops(fs, drop_dirs).raised = "no"
        /\ find_incomplete_drops(fs, drop_dirs).drops
              = {d \in Drops : PersistedState(d) \in IncompleteStates}

\* C3: for every write made through _atomic_write, at every step of the write
\* and after a crash at any step, the destination holds either the complete
\* content it had before the call (absent when there was none) or the complete
\* new content, never an empty or partial file; and once the write has returned,
\* the destination holds exactly the new content and no .tmp sibling is left.
C3_AtomicWrite ==
    /\ \A p \in AtomicPaths : fs[p].kind \in {"absent", "full"}
    /\ wr.step # "idle" => fs[wr.path] \in {wr.before, Full(wr.content)}
    /\ wr.step \in {"returned", "killed_after_return"} =>
          /\ fs[wr.path] = Full(wr.content)
          /\ fs[TmpPath(wr.path)] = Absent

\* C3: a write that replaces earlier content is killed with its .tmp sibling
\* partly written; the destination still holds the earlier content.
C3_Witness ==
    /\ wr.step = "killed"
    /\ fs[[wr.path EXCEPT !.tmp = TRUE]].kind = "partial"
    /\ wr.before.kind = "full"
    /\ wr.before # Full(wr.content)
    /\ fs[wr.path] = wr.before


\* ===================================================== the application flow
\* A plan is the list of its researcher configs, each the id it carries (0: none).
NoIdPlan(n) == [i \in 1..n |-> 0]

\* The plans extract_drop_plan may hand over: 0..MaxResearchers configs without
\* ids, and one whose first config carries the explicit id researcher-2.
PlanIdLists == {NoIdPlan(n) : n \in 0..MaxResearchers} \cup {<<2, 0>>}

\* researcher_id = config.get("id", f"researcher-{idx + 1}"); config["id"] = researcher_id
MutAssignReversed(ids) ==
    [i \in DOMAIN ids |-> IF ids[i] = 0 THEN Len(ids) + 1 - i ELSE ids[i]]
AssignIds(ids) == [i \in DOMAIN ids |-> IF ids[i] = 0 THEN i ELSE ids[i]]

\* check_crash_recovery() raises out of main() when find_incomplete_drops raises;
\* it runs only once the adapters exist.
AppAlive == ~session_started \/ find_incomplete_drops(fs, drop_dirs).raised = "no"

\* main(): save_session_state({...}) at the start of each script run.
\* flag: the research toggle's value when the run starts.
SessionStateDict(flag) ==
    [research_mode |-> "general", research_flag |-> flag, drop_counter |-> drop_counter]

MainSaves(f, flag) ==
    IF session_started
    THEN atomic_write(f, session_state_file, SessionStateDict(flag))
    ELSE f

\* write_text of the generators, the researcher and the research trigger.
write_text(f, p, c) == [f EXCEPT ![p] = Full(c)]

\* ---------------------------------------------------------- user's events
\* A prompt with the research flag on: ChatInterface.render and
\* _trigger_research_execution.
ChatResearchPrompt ==
    /\ pc = "idle"
    /\ AppAlive
    /\ session_started' = TRUE
    /\ \/ \* propose_research_plan() returned None: ValueError, caught by render
          /\ fs' = MainSaves(fs, TRUE)
          /\ UNCHANGED <<drop_dirs, now, wr, libVars, drop_counter, current_plan, current_drop_id,
                         research_in_progress, research_complete, cancel_research,
                         flowVars>>
       \/ \* extract_user_context() raised after the drop folder was created
          /\ drop_counter < MaxDrops
          /\ drop_counter' = drop_counter + 1
          /\ drop_dirs' = drop_dirs \cup {drop_counter + 1}
          /\ fs' = MainSaves(fs, TRUE)
          /\ UNCHANGED <<now, wr, libVars, current_plan, current_drop_id, research_in_progress,
                         research_complete, cancel_research, flowVars>>
       \/ \* the drop is created and recorded as researching; st.rerun()
          /\ drop_counter < MaxDrops
          /\ \E ids \in PlanIdLists :
                LET d == drop_counter + 1
                    f1 == write_text(MainSaves(fs, TRUE), user_context_file(d), [context_of |-> d])
                    f2 == write_text(f1, history_file(d), [snapshot_of |-> d])
                IN  /\ drop_counter' = d
                    /\ drop_dirs' = drop_dirs \cup {d}
                    /\ current_plan' = [set |-> TRUE, ids |-> ids]
                    /\ current_drop_id' = d
                    /\ research_in_progress' = TRUE
                    /\ fs' = update_drop_state(f2, d, "researching", now)
                    /\ now' = Tick
                    /\ pc' = "rerun"
          /\ UNCHANGED <<wr, libVars, research_complete, cancel_research, tasks, statuses,
                         assignment_failed, outputs, system_errors>>

\* The script is executing _execute_research_async.
Executing == pc \in {"research", "gathered", "synth", "analyze", "metadata", "loadctx"}

\* The Stop button, rendered while research is in progress:
\*     st.session_state.cancel_research = True; st.rerun()
\* A click is handled by a script run. Streamlit stops a running script at its next
\* st.* call and reruns it for the click (asyncio.run is torn down with its tasks);
\* no st.* call lies between update_drop_state(drop_id, "complete") and the reset
\* of research_in_progress. The cancellation_flag lambda is written for a flag
\* that turns true while execute_research_plan runs. Both are behaviours of the
\* click.
StopClick ==
    /\ research_in_progress
    /\ ~cancel_research
    /\ pc # "rerun"
    /\ pc = "idle" => AppAlive
    /\ cancel_research' = TRUE
    /\ \/ /\ pc # "loadctx"
          /\ pc' = "rerun"
          /\ tasks' = <<>>
          /\ outputs' = <<>>
          /\ system_errors' = {}
          /\ fs' = MainSaves(fs, FALSE)
       \/ /\ Executing
          /\ UNCHANGED <<pc, tasks, fs, outputs, system_errors>>
    /\ UNCHANGED <<drop_dirs, now, wr, libVars, session_started, drop_counter,
                   current_plan, current_drop_id, research_in_progress,
                   research_complete, statuses, assignment_failed>>

\* check_crash_recovery: "Mark drop-N as failed" on a drop find_incomplete_drops
\* lists, then st.rerun(). (Sidebar clicks are taken between script runs.)
MarkAsFailed(d) ==
    /\ pc = "idle"
    /\ session_started
    /\ find_incomplete_drops(fs, drop_dirs).raised = "no"
    /\ d \in find_incomplete_drops(fs, drop_dirs).drops
    /\ fs' = update_drop_state(fs, d, "failed", now)
    /\ now' = Tick
    /\ pc' = "rerun"
    /\ UNCHANGED <<drop_dirs, wr, libVars, sessionVars, tasks, statuses, assignment_failed,
                   outputs, system_errors>>

\* ------------------------------------------- ProgressDisplay: the handlers
\* _handle_cancellation(drop_id, ...), ending in st.rerun().
MutCancelRollsBack(d) ==
    /\ fs' = update_drop_state(
                [p \in Paths |-> IF p.drop = d /\ p.rid # 0 THEN Absent ELSE fs[p]],
                d, "cancelled", now)
    /\ now' = Tick
    /\ research_in_progress' = FALSE
    /\ current_drop_id' = 0
    /\ current_plan' = NoPlan
    /\ cancel_research' = FALSE
    /\ pc' = "rerun"
handle_cancellation(d) ==
    /\ fs' = update_drop_state(fs, d, "cancelled", now)
    /\ now' = Tick
    /\ research_in_progress' = FALSE
    /\ current_drop_id' = 0
    /\ current_plan' = NoPlan
    /\ cancel_research' = FALSE
    /\ pc' = "rerun"

\* except Exception as e: of _execute_research_async.
ErrorHandler(d) ==
    IF cancel_research
    THEN handle_cancellation(d)
    ELSE /\ fs' = update_drop_state(fs, d, "failed", now)
         /\ now' = Tick
         /\ research_in_progress' = FALSE
         /\ pc' = "idle"
         /\ UNCHANGED <<current_drop_id, current_plan, cancel_research>>

\* What neither handler touches.
HandlerFrame ==
    UNCHANGED <<drop_dirs, wr, libVars, session_started, drop_counter,
                research_complete, tasks, statuses, assignment_failed,
                outputs, system_errors>>

\* ------------------------------------------------- a script run, no prompt
\* render(): current_plan is set and research_complete is not.
MutExecuteEveryPlan == research_in_progress /\ current_plan.set
ShouldExecute ==
    research_in_progress /\ current_plan.set /\ ~research_complete

\* main() stops in check_crash_recovery: find_incomplete_drops raised.
ScriptDiesInRecovery ==
    /\ pc = "rerun"
    /\ ~AppAlive
    /\ pc' = "idle"
    /\ UNCHANGED <<storeVars, wr, libVars, sessionVars, tasks, statuses, assignment_failed,
                   outputs, system_errors>>

\* The script runs to its end without executing research.
ScriptIdle ==
    /\ pc = "rerun"
    /\ AppAlive
    /\ ~ShouldExecute
    /\ pc' = "idle"
    /\ fs' = MainSaves(fs, FALSE)
    /\ UNCHANGED <<drop_dirs, now, wr, libVars, sessionVars, tasks, statuses, assignment_failed,
                   outputs, system_errors>>

\* _execute_research_async: "Check for cancellation before starting".
ExecCancelledAtStart ==
    /\ pc = "rerun"
    /\ AppAlive
    /\ ShouldExecute
    /\ cancel_research
    /\ handle_cancellation(current_drop_id)
    /\ HandlerFrame

\* str(e) of the exceptions a task can end with, as the list of its words.
CancelMessage == <<"Research", "cancelled", "by", "user">>
EngineErrors == { <<"Connection", "timed", "out">>,
                  <<"Request", "cancelled", "by", "server">> }

NewTask(id) ==
    [id |-> id, pc |-> "start", attempt |-> 0, outcome |-> "none", message |-> <<>>]

\* execute_research_plan up to asyncio.gather: the user context is loaded, ids are
\* assigned, statuses set IDLE and the tasks created.
ExecStart ==
    /\ pc = "rerun"
    /\ AppAlive
    /\ ShouldExecute
    /\ ~cancel_research
    /\ \/ /\ LET ids == AssignIds(current_plan.ids)
             IN  /\ current_plan' = [current_plan EXCEPT !.ids = ids]
                 /\ tasks' = [i \in DOMAIN ids |-> NewTask(ids[i])]
                 /\ statuses' = [r \in Rids |->
                                   IF \E i \in DOMAIN ids : ids[i] = r
                                   THEN "idle" ELSE statuses[r]]
          /\ fs' = MainSaves(fs, FALSE)
          /\ pc' = "research"
          /\ UNCHANGED <<now, current_drop_id, research_in_progress, cancel_research>>
       \/ \* _load_user_context(drop_path) raised
          /\ fs' = update_drop_state(MainSaves(fs, FALSE), current_drop_id, "failed", now)
          /\ now' = Tick
          /\ research_in_progress' = FALSE
          /\ pc' = "idle"
          /\ UNCHANGED <<current_drop_id, current_plan, cancel_research, tasks, statuses>>
    /\ UNCHANGED <<drop_dirs, wr, libVars, session_started, drop_counter, research_complete,
                   assignment_failed, outputs, system_errors>>

\* ------------------------------------- _execute_single_researcher, per task
TaskFrame ==
    UNCHANGED <<drop_dirs, now, wr, libVars, sessionVars, pc, outputs, system_errors>>

\* The except branch: status FAILED, the exception is re-raised into gather.
TaskRaises(i, how, msg) ==
    /\ tasks' = [tasks EXCEPT ![i].pc = "done", ![i].outcome = how, ![i].message = msg]
    /\ statuses' = [statuses EXCEPT ![tasks[i].id] = "failed"]
    /\ assignment_failed' = IF how = "error"
                            THEN [assignment_failed EXCEPT ![current_drop_id] = TRUE]
                            ELSE assignment_failed

\* "Check cancellation before starting", then status SEARCHING and the first sleep.
MutStartWithoutCheck(i) ==
    /\ pc = "research"
    /\ tasks[i].pc = "start"
    /\ tasks' = [tasks EXCEPT ![i].pc = "sleep1"]
    /\ statuses' = [statuses EXCEPT ![tasks[i].id] = "searching"]
    /\ UNCHANGED <<fs, assignment_failed>>
    /\ TaskFrame
TaskStart(i) ==
    /\ pc = "research"
    /\ tasks[i].pc = "start"
    /\ IF cancel_research
       THEN TaskRaises(i, "cancelled", CancelMessage)
       ELSE /\ tasks' = [tasks EXCEPT ![i].pc = "sleep1"]
            /\ statuses' = [statuses EXCEPT ![tasks[i].id] = "searching"]
            /\ UNCHANGED assignment_failed
    /\ UNCHANGED fs
    /\ TaskFrame

\* After the sleep: "Check cancellation", status ANALYZING, execute_research starts
\* its first engine invocation.
TaskAfterSearch(i) ==
    /\ pc = "research"
    /\ tasks[i].pc = "sleep1"
    /\ IF cancel_research
       THEN TaskRaises(i, "cancelled", CancelMessage)
       ELSE /\ tasks' = [tasks EXCEPT ![i].pc = "engine"]
            /\ statuses' = [statuses EXCEPT ![tasks[i].id] = "analyzing"]
            /\ UNCHANGED assignment_failed
    /\ UNCHANGED fs
    /\ TaskFrame

\* The findings of task i of drop d.
Findings(d, i) == [findings_of |-> d, task |-> i]

\* conduct_research / write_report returned: the output file is written, then
\* "Check cancellation after research", status WRITING and the second sleep.
EngineReturns(i) ==
    /\ pc = "research"
    /\ tasks[i].pc = "engine"
    /\ fs' = write_text(fs, OutputFile(current_drop_id, tasks[i].id),
                        Findings(current_drop_id, i))
    /\ IF cancel_research
       THEN TaskRaises(i, "cancelled", CancelMessage)
       ELSE /\ tasks' = [tasks EXCEPT ![i].pc = "sleep2"]
            /\ statuses' = [statuses EXCEPT ![tasks[i].id] = "writing"]
            /\ UNCHANGED assignment_failed
    /\ TaskFrame

\* The engine raised: while attempt < max_retries the loop sleeps 2 ** attempt
\* seconds and invokes the engine again, else the exception is raised.
MutEngineFailsOnceMore(i) ==
    /\ pc = "research"
    /\ tasks[i].pc = "engine"
    /\ IF tasks[i].attempt <= max_retries
       THEN /\ tasks' = [tasks EXCEPT ![i].attempt = @ + 1]
            /\ UNCHANGED <<statuses, assignment_failed>>
       ELSE \E msg \in EngineErrors : TaskRaises(i, "error", msg)
    /\ UNCHANGED fs
    /\ TaskFrame
EngineFails(i) ==
    /\ pc = "research"
    /\ tasks[i].pc = "engine"
    /\ IF tasks[i].attempt < max_retries
       THEN /\ tasks' = [tasks EXCEPT ![i].attempt = @ + 1]
            /\ UNCHANGED <<statuses, assignment_failed>>
       ELSE \E msg \in EngineErrors : TaskRaises(i, "error", msg)
    /\ UNCHANGED fs
    /\ TaskFrame

\* After the second sleep: status COMPLETE, the output is returned.
TaskFinish(i) ==
    /\ pc = "research"
    /\ tasks[i].pc = "sleep2"
    /\ tasks' = [tasks EXCEPT ![i].pc = "done", ![i].outcome = "output"]
    /\ statuses' = [statuses EXCEPT ![tasks[i].id] = "complete"]
    /\ UNCHANGED <<fs, assignment_failed>>
    /\ TaskFrame

\* --------------------------------- _execute_research_async after the gather
\* outputs = await asyncio.gather(*tasks, return_exceptions=True)
MutFirstTaskDone == \E i \in DOMAIN tasks : tasks[i].pc = "done"
AllTasksDone == \A i \in DOMAIN tasks : tasks[i].pc = "done"

\* update_drop_state(drop_id, "synthesizing")
MutSkipSynthesizing == "complete"
StateAfterResearch == "synthesizing"

\* str.lower() on the words of a message.
LowerWord(w) ==
    CASE w = "Research" -> "research"
      [] w = "Request" -> "request"
      [] w = "Connection" -> "connection"
      [] OTHER -> w

\* "cancelled" in str(output).lower()
MentionsCancelled(msg) == \E k \in DOMAIN msg : LowerWord(msg[k]) = "cancelled"

\* "Filter out failed researchers": the ResearchOutput results, in task order.
MutReturnEveryTask(ts, d) ==
    [i \in DOMAIN ts |-> [researcher_id |-> ts[i].id, findings |-> Findings(d, i)]]
successful_outputs(ts, d) ==
    LET idx == SelectSeq([i \in DOMAIN ts |-> i], LAMBDA i : ts[i].outcome = "output")
    IN  [k \in DOMAIN idx |->
            [researcher_id |-> ts[idx[k]].id, findings |-> Findings(d, idx[k])]]

\* The results for which on_progress("system", FAILED, "Research error: ...") is
\* called: exceptions whose text does not mention "cancelled".
research_errors(ts) ==
    {i \in DOMAIN ts : /\ ts[i].outcome \in {"error", "cancelled"}
                       /\ ~MentionsCancelled(ts[i].message)}

\* asyncio.gather has every result; execute_research_plan filters them and returns.
GatherReturn ==
    /\ pc = "research"
    /\ AllTasksDone
    /\ outputs' = successful_outputs(tasks, current_drop_id)
    /\ system_errors' = research_errors(tasks)
    /\ pc' = "gathered"
    /\ UNCHANGED <<storeVars, wr, libVars, sessionVars, tasks, statuses, assignment_failed>>

\* "Check for cancellation after research (before generators)"; else the drop
\* state is updated.
AfterResearch ==
    /\ pc = "gathered"
    /\ IF cancel_research
       THEN handle_cancellation(current_drop_id)
       ELSE /\ fs' = update_drop_state(fs, current_drop_id, StateAfterResearch, now)
            /\ now' = Tick
            /\ pc' = "synth"
            /\ UNCHANGED <<current_plan, current_drop_id, research_in_progress,
                           cancel_research>>
    /\ tasks' = <<>>
    /\ outputs' = <<>>
    /\ system_errors' = {}
    /\ UNCHANGED <<drop_dirs, wr, libVars, session_started, drop_counter,
                   research_complete, statuses, assignment_failed>>

\* drop_path.glob("researcher-*-output.md")
load_researcher_outputs(f, d) == {r \in Rids : Exists(f, OutputFile(d, r))}

\* LatestGenerator.save_latest
save_latest(f, c) == write_text(f, latest_file, c)

\* GeneratorAdapter.synthesize_drop: latest.md is rewritten from the previous
\* latest.md and the drop's outputs (no check that there are outputs).
SynthesizeDrop ==
    /\ pc = "synth"
    /\ \/ /\ fs' = save_latest(fs,
                     [drops |-> (IF Exists(fs, latest_file)
                                 THEN fs[latest_file].data.drops ELSE {})
                                \cup {current_drop_id}])
          /\ pc' = "analyze"
          /\ UNCHANGED <<now, current_plan, current_drop_id, research_in_progress,
                         cancel_research>>
       \/ \* the Conversational Agent call failed
          ErrorHandler(current_drop_id)
    /\ HandlerFrame

\* CriticalAnalystGenerator.save_analysis
MutForgetSaveAnalysis(f, d, c) == f
save_analysis(f, d, c) == write_text(f, critical_file(d), c)

\* GeneratorAdapter.analyze_drop
AnalyzeDrop ==
    /\ pc = "analyze"
    /\ \/ /\ load_researcher_outputs(fs, current_drop_id) # {}
          /\ fs' = save_analysis(fs, current_drop_id,
                      [analysis_of |-> load_researcher_outputs(fs, current_drop_id)])
          /\ pc' = "metadata"
          /\ UNCHANGED <<now, current_plan, current_drop_id, research_in_progress,
                         cancel_research>>
       \/ \* ValueError("No researcher outputs found ...")
          /\ load_researcher_outputs(fs, current_drop_id) = {}
          /\ ErrorHandler(current_drop_id)
       \/ \* the Conversational Agent call failed
          /\ load_researcher_outputs(fs, current_drop_id) # {}
          /\ ErrorHandler(current_drop_id)
    /\ HandlerFrame

\* GeneratorAdapter.generate_metadata, then update_drop_state(drop_id, "complete")
GenerateMetadata ==
    /\ pc = "metadata"
    /\ \/ /\ fs' = update_drop_state(
                      write_text(fs, session_metadata_file, [total_drops |-> drop_dirs]),
                      current_drop_id, "complete", now)
          /\ now' = Tick
          /\ pc' = "loadctx"
          /\ UNCHANGED <<current_plan, current_drop_id, research_in_progress,
                         cancel_research>>
       \/ \* generate_session_metadata / save_session_metadata raised
          ErrorHandler(current_drop_id)
    /\ HandlerFrame

\* HQAdapter._inject_drop_context: the drop's researcher outputs and its critical
\* analysis are read and, if any was found, appended as one assistant message.
MutInjectTwice(h, f, dirs, d) ==
    h \o << [role |-> "assistant", drop |-> d,
             outputs |-> load_researcher_outputs(f, d), critical |-> TRUE],
            [role |-> "assistant", drop |-> d,
             outputs |-> load_researcher_outputs(f, d), critical |-> TRUE] >>
inject_drop_context(h, f, dirs, d) ==
    LET found == IF d \in dirs THEN load_researcher_outputs(f, d) ELSE {}
        critical == d \in dirs /\ Exists(f, critical_file(d))
    IN  IF found # {} \/ critical
        THEN Append(h, [role |-> "assistant", drop |-> d,
                        outputs |-> found, critical |-> critical])
        ELSE h

\* hq_adapter.load_drop_context(drop_id), then "Mark complete" and st.rerun()
LoadDropContext ==
    /\ pc = "loadctx"
    /\ \/ /\ drop_context_turns' =
                inject_drop_context(drop_context_turns, fs, drop_dirs, current_drop_id)
          /\ research_in_progress' = FALSE
          /\ research_complete' = TRUE
          /\ current_drop_id' = 0
          /\ current_plan' = NoPlan
          /\ pc' = "rerun"
          /\ UNCHANGED <<storeVars, wr, session_messages, hqVars, session_started, drop_counter,
                         cancel_research, tasks, statuses, assignment_failed,
                         outputs, system_errors>>
       \/ \* reading the drop's files raised
          /\ ErrorHandler(current_drop_id)
          /\ HandlerFrame

\* ---------------------------------------------------------- specifications
ProgramStep ==
    \/ ScriptDiesInRecovery
    \/ ScriptIdle
    \/ ExecCancelledAtStart
    \/ ExecStart
    \/ \E i \in 1..MaxResearchers : i \in DOMAIN tasks /\ TaskStart(i)
    \/ \E i \in 1..MaxResearchers : i \in DOMAIN tasks /\ TaskAfterSearch(i)
    \/ \E i \in 1..MaxResearchers : i \in DOMAIN tasks /\ EngineReturns(i)
    \/ \E i \in 1..MaxResearchers : i \in DOMAIN tasks /\ EngineFails(i)
    \/ \E i \in 1..MaxResearchers : i \in DOMAIN tasks /\ TaskFinish(i)
    \/ GatherReturn
    \/ AfterResearch
    \/ SynthesizeDrop
    \/ AnalyzeDrop
    \/ GenerateMetadata
    \/ LoadDropContext

UserStep ==
    \/ ChatResearchPrompt
    \/ StopClick
    \/ \E d \in Drops : MarkAsFailed(d)

Next == ProgramStep \/ UserStep

Spec == Init /\ [][Next]_vars

\* The program's own steps are taken when they stay possible: every engine and
\* agent call returns or fails, asyncio runs every ready task.
FairSpec == Spec /\ WF_vars(ProgramStep)

\* ------------------------------------------ properties of the drop lifecycle
\* C4: while a drop's persisted state is proposed, researching or synthesizing,
\* each change of it goes to the immediate successor in
\* proposed -> researching -> synthesizing -> complete, or to failed or cancelled.
C4_ForwardOnly ==
    [][\A d \in Drops :
          LET s == PersistedState(d)
              successor == CASE s = "proposed" -> "researching"
                             [] s = "researching" -> "synthesizing"
                             [] OTHER -> "complete"
          IN  (s \in IncompleteStates /\ PersistedState(d)' # s)
                  => PersistedState(d)' \in {successor, "failed", "cancelled"}]_vars

\* C4: the first drop went researching -> synthesizing -> failed and the second
\* one is now synthesizing.
C4_Witness ==
    /\ PersistedState(1) = "failed"
    /\ fs[critical_file(1)].kind = "full"
    /\ PersistedState(2) = "synthesizing"
    /\ pc = "analyze"

\* C5: once a drop's persisted state is complete, failed or cancelled, no step
\* changes that drop's persisted state again.
C5_TerminalIsFinal ==
    [][\A d \in Drops :
          PersistedState(d) \in TerminalStates
              => PersistedState(d)' = PersistedState(d)]_vars

\* C6: every drop the research trigger puts in a non-terminal state eventually
\* reaches complete, failed or cancelled, the first drop of a session and every
\* later one, given that every step of the program that stays possible is taken.
C6_ReachesTerminal ==
    \A d \in Drops :
        (PersistedState(d) \in IncompleteStates) ~> (PersistedState(d) \in TerminalStates)

\* C7: a drop's persisted state changes from researching to synthesizing only
\* when every researcher task of its plan has finished, each with a persisted
\* output or with a definitive failure, none still running.
C7_SynthesizingAfterAllTasks ==
    [][\A d \in Drops :
          (PersistedState(d) = "researching" /\ PersistedState(d)' = "synthesizing")
              => /\ d = current_drop_id
                 /\ DOMAIN tasks = DOMAIN current_plan.ids
                 /\ \A i \in DOMAIN tasks :
                       /\ tasks[i].pc = "done"
                       /\ \/ /\ tasks[i].outcome = "output"
                             /\ fs[OutputFile(d, tasks[i].id)].kind = "full"
                          \/ tasks[i].outcome = "error"]_vars

\* C7: synthesizing was recorded for a plan of two researchers, one finished
\* with its output and the other failed after its last retry.
C7_Witness ==
    /\ pc = "synth"
    /\ PersistedState(current_drop_id) = "synthesizing"
    /\ current_plan.ids = <<1, 2>>
    /\ statuses[1] = "failed"
    /\ statuses[2] = "complete"
    /\ assignment_failed[current_drop_id]

\* C8: whenever a drop's persisted state is complete, latest.md has been
\* rewritten by that drop's synthesis and critical-analysis.md exists in that
\* drop's directory.
C8_CompleteHasSyntheses ==
    \A d \in Drops :
        PersistedState(d) = "complete"
            => /\ fs[latest_file].kind = "full"
               /\ d \in fs[latest_file].data.drops
               /\ fs[critical_file(d)].kind = "full"

\* C8: a drop is complete and its run has ended.
C8_Witness ==
    /\ research_complete
    /\ pc = "idle"
    /\ \E d \in Drops : PersistedState(d) = "complete"

\* C9: if an assignment of a drop failed definitively, the drop's persisted
\* state is complete only with a note of the failure in drop-state.json.
C9_CompleteNotesFailure ==
    \A d \in Drops :
        (assignment_failed[d] /\ PersistedState(d) = "complete")
            => "failure_note" \in DOMAIN fs[state_file(d)].data

\* C10: whenever a drop's persisted state is failed, drop-state.json records
\* the error that caused it.
C10_FailedRecordsError ==
    \A d \in Drops :
        PersistedState(d) = "failed" => "error" \in DOMAIN fs[state_file(d)].data

\* ------------------------------------------- properties of research dispatch
\* C11: when assignment K fails definitively, the step reports it through the
\* progress callback (status FAILED), stays inside execute_research_plan and
\* leaves every sibling task as it is; execute_research_plan returns with every
\* task at its end, and returns the outputs of exactly the tasks that produced
\* one, K's excluded, in every interleaving.
C11_FailureIsContained ==
    [][/\ \A k \in DOMAIN tasks :
             (k \in DOMAIN tasks' /\ tasks[k].outcome = "none"
                                  /\ tasks'[k].outcome = "error")
                 => /\ statuses'[tasks[k].id] = "failed"
                    /\ pc' = "research"
                    /\ \A j \in DOMAIN tasks \ {k} : tasks'[j] = tasks[j]
       /\ (pc = "research" /\ pc' = "gathered")
             => /\ DOMAIN tasks = DOMAIN current_plan.ids
                /\ \A i \in DOMAIN tasks : tasks[i].pc = "done"
                /\ {outputs'[n].findings.task : n \in DOMAIN outputs'}
                      = {i \in DOMAIN tasks : tasks[i].outcome = "output"}
                /\ Len(outputs') = Cardinality({i \in DOMAIN tasks :
                                                   tasks[i].outcome = "output"})]_vars

\* C11: of two assignments the first failed after its last retry, the second
\* ran to its end, and only the second one's output was returned.
C11_Witness ==
    /\ pc = "gathered"
    /\ Len(tasks) = 2
    /\ tasks[1].outcome = "error"
    /\ tasks[1].attempt = max_retries
    /\ tasks[2].outcome = "output"
    /\ outputs = <<[researcher_id |-> 2, findings |-> Findings(current_drop_id, 2)]>>

\* C12: when execute_research_plan returns, every researcher of the plan has
\* status COMPLETE or FAILED and the returned list holds exactly the outputs of
\* the researchers whose status is COMPLETE, one for each.
C12_ReturnMatchesStatuses ==
    pc = "gathered" =>
        LET planned == {current_plan.ids[i] : i \in DOMAIN current_plan.ids}
            completed == {r \in planned : statuses[r] = "complete"}
        IN  /\ \A r \in planned : statuses[r] \in {"complete", "failed"}
            /\ {outputs[n].researcher_id : n \in DOMAIN outputs} = completed
            /\ Len(outputs) = Cardinality(completed)

\* C13: no two tasks of one dispatch have the same researcher identifier (and so
\* the same output file), also when only some assignments carry an explicit id.
C13_DistinctIdentifiers ==
    \A i \in DOMAIN tasks : \A j \in DOMAIN tasks :
        i # j => tasks[i].id # tasks[j].id

\* C14: when no assignment of the plan supplies an id, the dispatch assigns
\* researcher-1 .. researcher-N in assignment order, and assigning again over
\* the list it annotated gives the same identifiers.
C14_GeneratedIdsStable ==
    [][(pc = "rerun" /\ pc' = "research"
          /\ \A i \in DOMAIN current_plan.ids : current_plan.ids[i] = 0)
          => /\ current_plan'.ids = [i \in DOMAIN current_plan.ids |-> i]
             /\ \A i \in DOMAIN tasks' : tasks'[i].id = i
             /\ AssignIds(current_plan'.ids) = current_plan'.ids]_vars

\* C14: a plan of two assignments without ids has been dispatched.
C14_Witness ==
    /\ pc = "research"
    /\ current_plan.ids = <<1, 2>>
    /\ Len(tasks) = 2
    /\ tasks[1].id = 1
    /\ tasks[2].id = 2

\* C15: execute_research invokes the engine at most max_retries + 1 times for
\* one assignment. An invocation that succeeds ends the loop with its findings
\* written; one that fails is followed by another only while fewer than
\* max_retries retries were made; the last failure is raised, nothing returned.
C15_BoundedRetries ==
    [][\A i \in DOMAIN tasks :
          i \in DOMAIN tasks' =>
             /\ tasks'[i].attempt <= max_retries
             /\ (tasks[i].pc = "engine" /\ tasks'[i] # tasks[i]) =>
                   \/ /\ tasks'[i].pc \in {"sleep2", "done"}
                      /\ tasks'[i].outcome # "error"
                      /\ tasks'[i].attempt = tasks[i].attempt
                      /\ fs'[OutputFile(current_drop_id, tasks[i].id)]
                            = Full(Findings(current_drop_id, i))
                   \/ /\ tasks[i].attempt < max_retries
                      /\ tasks'[i] = [tasks[i] EXCEPT !.attempt = @ + 1]
                      /\ fs' = fs
                   \/ /\ tasks[i].attempt = max_retries
                      /\ tasks'[i].pc = "done"
                      /\ tasks'[i].outcome = "error"
                      /\ tasks'[i].message \in EngineErrors
                      /\ fs' = fs]_vars

\* C15: one assignment succeeded on its second engine invocation, another
\* failed on its last one.
C15_Witness ==
    /\ pc = "research"
    /\ \E i \in DOMAIN tasks : \E j \in DOMAIN tasks :
          /\ tasks[i].pc = "sleep2"
          /\ tasks[i].attempt = 1
          /\ tasks[j].outcome = "error"
          /\ tasks[j].attempt = max_retries

\* C16: a task that finds the cancellation predicate true at its first
\* checkpoint ends there with the cancellation failure and status FAILED, with
\* no engine invocation and no file written; and no task that ended by
\* cancellation is among the returned outputs.
C16_CancelledBeforeStart ==
    [][/\ \A i \in DOMAIN tasks :
             (i \in DOMAIN tasks' /\ tasks[i].pc = "start" /\ cancel_research
                                  /\ tasks'[i] # tasks[i])
                 => /\ tasks'[i] = [tasks[i] EXCEPT !.pc = "done",
                                                    !.outcome = "cancelled",
                                                    !.message = CancelMessage]
                    /\ tasks'[i].attempt = 0
                    /\ statuses'[tasks[i].id] = "failed"
                    /\ fs' = fs
       /\ (pc = "research" /\ pc' = "gathered")
             => \A i \in DOMAIN tasks :
                   tasks[i].outcome = "cancelled"
                       => \A n \in DOMAIN outputs' : outputs'[n].findings.task # i]_vars

\* C16: the dispatch returned nothing; every task ended by cancellation with no
\* engine retry and no output file of the drop exists.
C16_Witness ==
    /\ pc = "gathered"
    /\ Len(tasks) = 2
    /\ outputs = <<>>
    /\ \A i \in DOMAIN tasks :
          /\ tasks[i].outcome = "cancelled"
          /\ tasks[i].attempt = 0
          /\ statuses[tasks[i].id] = "failed"
          /\ fs[OutputFile(current_drop_id, tasks[i].id)] = Absent

\* C17: the step that records a drop as cancelled changes no file but the
\* drop's state file: researcher outputs already written, user-context.md and
\* conversation-history.md keep their content.
C17_CancellationKeepsArtifacts ==
    [][\A d \in Drops :
          (PersistedState(d)' = "cancelled" /\ PersistedState(d) # "cancelled")
              => \A p \in Paths \ {state_file(d)} : fs'[p] = fs[p]]_vars

\* C17: a cancelled drop whose directory holds a researcher output next to its
\* user context and conversation history.
C17_Witness ==
    \E d \in Drops :
        /\ PersistedState(d) = "cancelled"
        /\ \E r \in Rids : fs[OutputFile(d, r)].kind = "full"
        /\ fs[user_context_file(d)] = Full([context_of |-> d])
        /\ fs[history_file(d)] = Full([snapshot_of |-> d])

\* C18: when execute_research_plan returns, no assignment that ended by
\* cooperative cancellation has been reported as a research error, and every
\* assignment that ended by another failure has been, whatever its message.
C18_CancellationDistinctFromFailure ==
    pc = "gathered" =>
        \A i \in DOMAIN tasks :
            /\ tasks[i].outcome = "cancelled" => i \notin system_errors
            /\ tasks[i].outcome = "error" => i \in system_errors

\* C19: for a drop with zero researcher outputs, synthesize_drop and
\* analyze_drop both fail: neither pass is left with success, and neither
\* latest.md nor the drop's critical-analysis.md is written or changed.
C19_NoOutputsNoSynthesis ==
    [][(pc \in {"synth", "analyze"}
          /\ load_researcher_outputs(fs, current_drop_id) = {})
          => /\ pc = "synth" => pc' # "analyze"
             /\ pc = "analyze" => pc' # "metadata"
             /\ fs'[latest_file] = fs[latest_file]
             /\ fs'[critical_file(current_drop_id)]
                   = fs[critical_file(current_drop_id)]]_vars

\* C20: every artifact written with write_text holds, at every step of the
\* write and after a crash at any step, either its previous content in full
\* (absent when there was none) or the new content in full, never an empty or
\* partial file.
C20_ArtifactWritesAtomic ==
    /\ \A p \in ArtifactPaths : fs[p].kind \in {"absent", "full"}
    /\ wr.op = "write_text" => fs[wr.path] \in {wr.before, Full(wr.content)}

\* --------------------------------------------- properties of the drop's record
\* C21: the first state persisted for a drop is proposed, and it is recorded
\* while no researcher output of the drop exists (so before researching is).
C21_ProposedFirst ==
    [][\A d \in Drops :
          (PersistedState(d) = "absent" /\ PersistedState(d)' # "absent")
              => /\ PersistedState(d)' = "proposed"
                 /\ \A r \in Rids : fs'[OutputFile(d, r)].kind = "absent"]_vars

\* C22: while the researcher tasks of a drop are dispatched, some file of the
\* drop's directory holds the plan's assignment list.
C22_AssignmentsRecordedBeforeDispatch ==
    pc = "research" =>
        \E p \in FinalPaths :
            /\ p.drop = current_drop_id
            /\ fs[p].kind = "full"
            /\ \/ "researchers" \in DOMAIN fs[p].data
               \/ "researchers_assigned" \in DOMAIN fs[p].data

ChunkTexts == {"Hel", "lo"}

\* The responses the agent may stream: 0 .. MaxChunks chunks.
Replies == UNION {[1..n -> ChunkTexts] : n \in 0..MaxChunks}

UserMessages == { <<"Research", "Arthur.ai">> }

\* error_msg = f"API Error: {str(e)}"
error_msg == <<"API Error">>

\* finally: self.conversation_history.append({"role": "assistant", ...}); the
\* generator is finished.
finally_append(content) ==
    /\ conversation_history' = Append(conversation_history, Msg("assistant", content))
    /\ stream' = NoStream

\* What the caller of next() / close() gets when the generator finishes.
generator_ends(how) == ret' = [op |-> stream.via, outcome |-> how]

ChatFrame ==
    UNCHANGED <<storeVars, wr, sessionVars, flowVars, drop_context_turns, session_messages, token_counts>>

\* The first next() on chat_stream(user_message), made by the UI loop
\* (via = "chat_stream") or by "".join(...) in chat() (via = "chat"): the user
\* message is appended and the request is sent. r is the response the agent is
\* about to stream.
ChatStreamBegin(via, u, r) ==
    /\ stream.state = "none"
    /\ Len(conversation_history) < 2 * MaxTurns
    /\ conversation_history' = Append(conversation_history, Msg("user", u))
    /\ stream' = [state |-> "started", via |-> via, assistant_message |-> <<>>,
                  reply |-> r]
    /\ UNCHANGED ret
    /\ ChatFrame

\* for text in stream.text_stream: assistant_message += text; yield text
StreamText ==
    /\ stream.state \in {"started", "suspended"}
    /\ Len(stream.assistant_message) < Len(stream.reply)
    /\ stream' = [stream EXCEPT
                     !.state = "suspended",
                     !.assistant_message =
                         Append(@, stream.reply[Len(stream.assistant_message) + 1])]
    /\ UNCHANGED <<conversation_history, ret>>
    /\ ChatFrame

\* The stream is exhausted: the loop and the with block end, finally runs.
StreamEnd ==
    /\ stream.state \in {"started", "suspended"}
    /\ stream.assistant_message = stream.reply
    /\ finally_append(stream.assistant_message)
    /\ generator_ends("StopIteration")
    /\ ChatFrame

\* except anthropic.APIError: yield error_msg
StreamAPIError ==
    /\ stream.state \in {"started", "suspended"}
    /\ stream' = [stream EXCEPT !.state = "error_yielded"]
    /\ UNCHANGED <<conversation_history, ret>>
    /\ ChatFrame

\* ... resumed after that yield: assistant_message = error_msg, finally runs.
StreamErrorResume ==
    /\ stream.state = "error_yielded"
    /\ finally_append(error_msg)
    /\ generator_ends("StopIteration")
    /\ ChatFrame

\* An exception that is not an anthropic.APIError leaves the try block: finally
\* runs with what was accumulated, the exception reaches the caller.
StreamRaises ==
    /\ stream.state \in {"started", "suspended"}
    /\ finally_append(stream.assistant_message)
    /\ generator_ends("raised")
    /\ ChatFrame

\* The UI loop is left while the generator is suspended at a yield (the script
\* run is stopped or raises in the loop body): the generator is closed,
\* GeneratorExit is raised at the yield and finally runs. "".join never leaves
\* its loop early.
StreamAbandoned ==
    /\ stream.state \in {"suspended", "error_yielded"}
    /\ stream.via = "chat_stream"
    /\ finally_append(stream.assistant_message)
    /\ generator_ends("closed")
    /\ ChatFrame

NextChat ==
    \/ \E via \in {"chat_stream", "chat"}, u \in UserMessages, r \in Replies :
          ChatStreamBegin(via, u, r)
    \/ StreamText
    \/ StreamEnd
    \/ StreamAPIError
    \/ StreamErrorResume
    \/ StreamRaises
    \/ StreamAbandoned

SpecChat == Init /\ [][NextChat]_vars

\* C23: a chat turn adds the user message when it starts and one agent message
\* when it ends, and the agent message is the complete response (or the API
\* error text), never the part of a response streamed so far.
C23_NoPartialAgentMessage ==
    [][conversation_history' # conversation_history
          => \/ /\ stream.state = "none"
                /\ stream'.state = "started"
                /\ \E u \in UserMessages :
                      conversation_history' = Append(conversation_history, Msg("user", u))
             \/ /\ stream.state # "none"
                /\ stream' = NoStream
                /\ \E c \in {stream.reply, error_msg} :
                      conversation_history' =
                          Append(conversation_history, Msg("assistant", c))]_vars

\* ================= replies of the agent that are parsed as JSON (core/hq)
\* A reply is the sequence of its tokens: free text, an opening brace, a
\* closing brace, the member list of a JSON object ("key": value, ...) and the
\* clarification marker. object is what the member list spells: its keys, each
\* with the kind of its value.
ReplyTokens == {"text", "{", "}", "members", "NEEDS_CLARIFICATION"}
ReplyShapes == UNION {[1..n -> ReplyTokens] : n \in 0..MaxReplyLen}

\* str.find / str.rfind: the 0-based position of the first / last x, or -1.
find(t, x) ==
    IF \E i \in DOMAIN t : t[i] = x
    THEN (CHOOSE i \in DOMAIN t : t[i] = x /\ \A j \in 1..(i - 1) : t[j] # x) - 1
    ELSE -1
rfind(t, x) ==
    IF \E i \in DOMAIN t : t[i] = x
    THEN (CHOOSE i \in DOMAIN t : t[i] = x /\ \A j \in (i + 1)..Len(t) : t[j] # x) - 1
    ELSE -1

\* t[a:b] for 0 <= a, 0 <= b
Slice(t, a, b) == IF b <= a THEN <<>> ELSE SubSeq(t, a + 1, b)

\* json.loads: a text is a JSON document when it is one object, its braces
\* around its member list (or around nothing).
EmptyObject == [k \in {} |-> "str"]
json_loads(text, object) ==
    IF text = <<"{", "members", "}">> THEN [ok |-> TRUE, value |-> object]
    ELSE IF text = <<"{", "}">> THEN [ok |-> TRUE, value |-> EmptyObject]
    ELSE [ok |-> FALSE]

\* -------------------------------- ContextExtractor._parse_context_response
required_fields ==
    {"strategic_why", "decision_context", "mental_models", "priorities",
     "constraints", "success_criteria"}

\* The object the extraction prompt asks for.
FullContext ==
    [strategic_why |-> "str", decision_context |-> "str", mental_models |-> "list",
     priorities |-> "dict", constraints |-> "list", success_criteria |-> "str",
     hypothesis |-> "str"]

\* What the agent may send as the object: all the keys, all but one of them,
\* or a null where a string is expected.
ContextObjects ==
    {[k \in (DOMAIN FullContext) \ missing |-> FullContext[k]] :
        missing \in {m \in SUBSET DOMAIN FullContext : Cardinality(m) <= 1}}
    \cup {[FullContext EXCEPT !.strategic_why = "null"]}

\* UserContext(strategic_why=context_dict['strategic_why'], ...,
\*             hypothesis=context_dict.get('hypothesis'))
UserContext(context_dict) ==
    [k \in required_fields \cup {"hypothesis"} |->
        IF k = "hypothesis" /\ k \notin DOMAIN context_dict
        THEN "None" ELSE context_dict[k]]

MutParseSkipsValidation(reply) ==
    LET json_start == find(reply.tokens, "{")
        json_end == rfind(reply.tokens, "}") + 1
        parsed == json_loads(Slice(reply.tokens, json_start, json_end), reply.object)
    IN  IF json_start = -1 \/ json_end = 0
        THEN [raised |-> "ValueError", message |-> "No JSON found"]
        ELSE IF ~parsed.ok
        THEN [raised |-> "ValueError", message |-> "Failed to parse context JSON"]
        ELSE [raised |-> "no",
              context |-> [k \in required_fields \cup {"hypothesis"} |->
                              IF k \in DOMAIN parsed.value
                              THEN parsed.value[k] ELSE "None"]]
parse_context_response(reply) ==
    LET json_start == find(reply.tokens, "{")
        json_end == rfind(reply.tokens, "}") + 1
        parsed == json_loads(Slice(reply.tokens, json_start, json_end), reply.object)
    IN  IF json_start = -1 \/ json_end = 0
        THEN [raised |-> "ValueError", message |-> "No JSON found"]
        ELSE IF ~parsed.ok
        THEN [raised |-> "ValueError", message |-> "Failed to parse context JSON"]
        ELSE IF \E field \in required_fields : field \notin DOMAIN parsed.value
        THEN [raised |-> "ValueError", message |-> "Missing required field"]
        ELSE [raised |-> "no", context |-> UserContext(parsed.value)]

ExtractFrame ==
    UNCHANGED <<storeVars, wr, sessionVars, flowVars, drop_context_turns, session_messages,
                stream, token_counts>>

\* ContextExtractor.extract: the agent is asked, its reply is parsed. (The
\* extractor keeps no state between calls: one call per behaviour.)
ExtractContext(reply) ==
    /\ ret = NoReturn
    /\ ret' = [op |-> "extract", input |-> reply, result |-> parse_context_response(reply)]
    /\ UNCHANGED conversation_history
    /\ ExtractFrame

\* client.messages.create raised.
ExtractContextFails ==
    /\ ret = NoReturn
    /\ ret' = [op |-> "extract", input |-> [object |-> EmptyObject, tokens |-> <<>>],
               result |-> [raised |-> "APIError", message |-> "API Error"]]
    /\ UNCHANGED conversation_history
    /\ ExtractFrame

NextContext ==
    \/ \E t \in ReplyShapes, o \in ContextObjects :
          ExtractContext([object |-> o, tokens |-> t])
    \/ ExtractContextFails

SpecContext == Init /\ [][NextContext]_vars

PlanObjects ==
    { [drop_id |-> "str", hypothesis |-> "str", researchers_assigned |-> "list"],
      [drop_id |-> "str", hypothesis |-> "str"],
      [drop_id |-> "str", hypothesis |-> "str", researchers_assigned |-> "null"] }

plan_request == <<"plan_request">>

\* The kinds of value len() accepts.
Sized == {"list", "str", "dict"}

\* extract_drop_plan after response = self.chat(plan_request, ...)
MutPlanIgnoresMarker(response) ==
    LET json_start == find(response.tokens, "{")
        json_end == rfind(response.tokens, "}") + 1
        parsed == json_loads(Slice(response.tokens, json_start, json_end),
                             response.object)
    IN  IF json_start = -1 \/ json_end = 0
        THEN [raised |-> "no", returned |-> "None"]
        ELSE IF ~parsed.ok
        THEN [raised |-> "no", returned |-> "None"]
        ELSE [raised |-> "no", returned |-> "plan", plan |-> parsed.value]
extract_drop_plan(response) ==
    LET json_start == find(response.tokens, "{")
        json_end == rfind(response.tokens, "}") + 1
        parsed == json_loads(Slice(response.tokens, json_start, json_end),
                             response.object)
    IN  IF \E k \in DOMAIN response.tokens : response.tokens[k] = "NEEDS_CLARIFICATION"
        THEN [raised |-> "no", returned |-> "None"]
        ELSE IF json_start = -1 \/ json_end = 0
        THEN [raised |-> "no", returned |-> "None"]
        ELSE IF ~parsed.ok
        THEN [raised |-> "no", returned |-> "None"]
        ELSE IF /\ "researchers_assigned" \in DOMAIN parsed.value
                /\ parsed.value["researchers_assigned"] \notin Sized
        THEN [raised |-> "TypeError", returned |-> "nothing"]
        ELSE [raised |-> "no", returned |-> "plan", plan |-> parsed.value]

PlanFrame ==
    UNCHANGED <<storeVars, wr, sessionVars, flowVars, drop_context_turns, session_messages,
                stream, token_counts>>

\* extract_drop_plan: chat(plan_request) adds the request and the response to
\* the history, the response is parsed.
ExtractDropPlan(response) ==
    /\ stream.state = "none"
    /\ Len(conversation_history) < 2 * MaxPlanRequests
    /\ conversation_history' = conversation_history
          \o <<Msg("user", plan_request), Msg("assistant", response.tokens)>>
    /\ ret' = [op |-> "extract_drop_plan", replied |-> TRUE, input |-> response,
               result |-> extract_drop_plan(response)]
    /\ PlanFrame

\* chat(plan_request) raised (no anthropic.APIError): no response to parse.
ExtractDropPlanChatRaises ==
    /\ stream.state = "none"
    /\ Len(conversation_history) < 2 * MaxPlanRequests
    /\ conversation_history' = conversation_history
          \o <<Msg("user", plan_request), Msg("assistant", <<>>)>>
    /\ ret' = [op |-> "extract_drop_plan", replied |-> FALSE,
               input |-> [object |-> EmptyObject, tokens |-> <<>>],
               result |-> [raised |-> "Exception", returned |-> "nothing"]]
    /\ PlanFrame

NextPlan ==
    \/ \E t \in ReplyShapes, o \in PlanObjects :
          ExtractDropPlan([object |-> o, tokens |-> t])
    \/ ExtractDropPlanChatRaises

SpecPlan == Init /\ [][NextPlan]_vars

ContentLines ==
    {"hello", "there", "", "# Findings", "  indented", "## USER story"}

\* Contents of one or two lines ("" is the single empty line).
Contents == UNION {[1..n -> ContentLines] : n \in 1..2}

Conversations ==
    UNION {[1..n -> {Msg(role, c) : role \in {"user", "assistant"}, c \in Contents}] :
              n \in 0..MaxMessages}

\* line.startswith("## USER"), line.startswith("## ASSISTANT"), line.startswith("# ")
StartsWithUser(line) == line \in {"## USER", "## USER story"}
StartsWithAssistant(line) == line = "## ASSISTANT"
StartsWithTitle(line) == line \in {"# Conversation History", "# Findings"}

\* str.strip() on a text given by its lines: blank lines at both ends go, the
\* first line loses its leading blanks (no line here ends with blanks).
lstrip(line) == IF line = "  indented" THEN "indented" ELSE line

RECURSIVE DropBlankHead(_)
DropBlankHead(ls) ==
    IF ls # <<>> /\ Head(ls) = "" THEN DropBlankHead(Tail(ls)) ELSE ls

RECURSIVE DropBlankTail(_)
DropBlankTail(ls) ==
    IF ls # <<>> /\ ls[Len(ls)] = ""
    THEN DropBlankTail(SubSeq(ls, 1, Len(ls) - 1)) ELSE ls

strip(ls) ==
    LET kept == DropBlankTail(DropBlankHead(ls))
    IN  IF kept = <<>> THEN <<"">> ELSE [kept EXCEPT ![1] = lstrip(@)]

\* messages.append({"role": current_role, "content": "\n".join(current_content).strip()})
Flush(messages, current_role, current_content) ==
    IF current_role # "None"
    THEN Append(messages, Msg(current_role, strip(current_content)))
    ELSE messages

\* The loop of _parse_conversation_md over conversation_md.split("\n").
RECURSIVE ParseLines(_, _, _, _)
ParseLines(lines, messages, current_role, current_content) ==
    IF lines = <<>> THEN Flush(messages, current_role, current_content)
    ELSE IF StartsWithUser(Head(lines))
    THEN ParseLines(Tail(lines), Flush(messages, current_role, current_content),
                    "user", <<>>)
    ELSE IF StartsWithAssistant(Head(lines))
    THEN ParseLines(Tail(lines), Flush(messages, current_role, current_content),
                    "assistant", <<>>)
    ELSE IF StartsWithTitle(Head(lines))
    THEN ParseLines(Tail(lines), messages, current_role, current_content)
    ELSE ParseLines(Tail(lines), messages, current_role,
                    Append(current_content, Head(lines)))

parse_conversation_md(conversation_md) ==
    ParseLines(conversation_md.lines, <<>>, "None", <<>>)

\* What a load returns: None, or the value read.
None == [raised |-> "no", none |-> TRUE]
Value(v) == [raised |-> "no", none |-> FALSE, value |-> v]

load_conversation(f) ==
    IF ~Exists(f, conversation_temp_file) THEN None
    ELSE IF f[conversation_temp_file].kind = "full"
    THEN Value(parse_conversation_md(f[conversation_temp_file].data))
    ELSE Value(<<>>)

LibraryFrame ==
    UNCHANGED <<wr, sessionVars, flowVars, drop_context_turns, session_messages,
                conversation_history, stream, token_counts>>

\* autosave_conversation(messages), start to end. (Each autosave replaces the
\* whole file: one save per behaviour.)
AutosaveConversation(messages) ==
    /\ ret = NoReturn
    /\ fs' = atomic_write(fs, conversation_temp_file, format_conversation_md(messages))
    /\ ret' = [op |-> "autosave_conversation", input |-> messages]
    /\ UNCHANGED <<drop_dirs, now>>
    /\ LibraryFrame

\* load_conversation() after it.
LoadSavedConversation ==
    /\ ret.op = "autosave_conversation"
    /\ ret' = [op |-> "load_conversation", saved |-> ret.input,
               result |-> load_conversation(fs)]
    /\ UNCHANGED storeVars
    /\ LibraryFrame

NextConversation ==
    \/ \E messages \in Conversations : AutosaveConversation(messages)
    \/ LoadSavedConversation

SpecConversation == Init /\ [][NextConversation]_vars

\* C26: load_conversation after autosave_conversation(messages) returns
\* messages: as many messages, in the same order, each with its role and
\* exactly its content.
C26_ConversationRoundTrip ==
    ret.op = "load_conversation" => ret.result = Value(ret.saved)

\* -------------------------- SpecFiles: the loads of StateManager, MemoryManager
\* An exception a load raised.
Raised(e) == [raised |-> e, none |-> FALSE]

load_session_state(f) ==
    IF ~Exists(f, session_state_file) THEN None
    ELSE IF f[session_state_file].kind # "full" THEN Raised("JSONDecodeError")
    ELSE Value(f[session_state_file].data)

\* if not file_path.exists(): return None; else f.read()
read_or_none(f, p) ==
    IF ~Exists(f, p) THEN None
    ELSE IF f[p].kind = "empty" THEN Value(<<>>)
    ELSE Value(f[p].data)

\* if not file_path.exists(): return None; else json.load(f)
json_load_or_none(f, p) ==
    IF ~Exists(f, p) THEN None
    ELSE IF f[p].kind # "full" THEN Raised("JSONDecodeError")
    ELSE Value(f[p].data)

\* drop_id 0 is no drop_id: the session's user-context.md.
user_context_path(d) == IF d # 0 THEN user_context_file(d) ELSE session_user_context_file

load_user_context(f, d) == read_or_none(f, user_context_path(d))
load_conversation_history(f) == read_or_none(f, session_history_file)
MutLoadRaisesWhenMissing(f) ==
    IF ~Exists(f, latest_file) THEN Raised("FileNotFoundError")
    ELSE Value(f[latest_file].data)
load_latest_md(f) == read_or_none(f, latest_file)
load_drop_metadata(f, d) == json_load_or_none(f, drop_metadata_file(d))
load_session_metadata(f) == json_load_or_none(f, session_metadata_file)

StateManagerLoads == {"load_conversation", "load_session_state", "get_drop_state"}
MemoryManagerLoads ==
    {"load_user_context", "load_conversation_history", "load_latest_md",
     "load_drop_metadata", "load_session_metadata"}
LoadOps == StateManagerLoads \cup MemoryManagerLoads

\* The file each load looks for.
LoadPath(op, d) ==
    CASE op = "load_conversation" -> conversation_temp_file
      [] op = "load_session_state" -> session_state_file
      [] op = "get_drop_state" -> state_file(d)
      [] op = "load_user_context" -> user_context_path(d)
      [] op = "load_conversation_history" -> session_history_file
      [] op = "load_latest_md" -> latest_file
      [] op = "load_drop_metadata" -> drop_metadata_file(d)
      [] op = "load_session_metadata" -> session_metadata_file

\* What each load gives (get_drop_state: "None", a state or the exception).
LoadResult(op, f, d) ==
    CASE op = "load_conversation" -> load_conversation(f)
      [] op = "load_session_state" -> load_session_state(f)
      [] op = "get_drop_state" -> get_drop_state(f, d)
      [] op = "load_user_context" -> load_user_context(f, d)
      [] op = "load_conversation_history" -> load_conversation_history(f)
      [] op = "load_latest_md" -> load_latest_md(f)
      [] op = "load_drop_metadata" -> load_drop_metadata(f, d)
      [] op = "load_session_metadata" -> load_session_metadata(f)

\* The drop ids each load takes.
LoadArgs(op) ==
    CASE op \in {"get_drop_state", "load_drop_metadata"} -> Drops
      [] op = "load_user_context" -> Drops \cup {0}
      [] OTHER -> {0}

FilesFrame ==
    UNCHANGED <<wr, sessionVars, flowVars, drop_context_turns, session_messages,
                conversation_history, stream, token_counts>>

\* A load: nothing is written.
Load(op, d) ==
    /\ ret' = [missing |-> ~Exists(fs, LoadPath(op, d)), op |-> op,
               path |-> LoadPath(op, d), result |-> LoadResult(op, fs, d)]
    /\ UNCHANGED storeVars
    /\ FilesFrame

\* A save, start to end.
Saved(op, f) ==
    /\ now < MaxClock
    /\ now' = now + 1
    /\ fs' = f
    /\ ret' = [op |-> op]
    /\ FilesFrame

SaveUpdateDropState(d, s) ==
    /\ Saved("update_drop_state", update_drop_state(fs, d, s, now))
    /\ drop_dirs' = drop_dirs \cup {d}

SaveAutosaveConversation(m) ==
    /\ Saved("autosave_conversation",
             atomic_write(fs, conversation_temp_file, format_conversation_md(m)))
    /\ UNCHANGED drop_dirs

SaveSessionState(st) ==
    /\ Saved("save_session_state", atomic_write(fs, session_state_file, st))
    /\ UNCHANGED drop_dirs

\* MemoryManager.save_*: the drop folder is made, the file is written.
MemoryPaths ==
    {session_user_context_file, session_history_file, latest_file, session_metadata_file}
    \cup {user_context_file(d) : d \in Drops} \cup {drop_metadata_file(d) : d \in Drops}

MemorySave(p) ==
    /\ Saved("memory_save", write_text(fs, p, [artifact |-> p.name, version |-> now + 1]))
    /\ drop_dirs' = drop_dirs \cup ({p.drop} \ {0})

NextFiles ==
    \/ \E op \in LoadOps : \E d \in LoadArgs(op) : Load(op, d)
    \/ \E d \in Drops, s \in SystemStates : SaveUpdateDropState(d, s)
    \/ \E m \in MessageLists : SaveAutosaveConversation(m)
    \/ \E st \in SessionStates : SaveSessionState(st)
    \/ \E p \in MemoryPaths : MemorySave(p)

SpecFiles == Init /\ [][NextFiles]_vars

\* What "None" is for the load.
ReturnedNone(r) ==
    IF r.op = "get_drop_state" THEN r.result = "None" ELSE r.result = None

Chars == {0, 3, MaxChars}

\* The messages of add_conversation, each its content's length.
TrackedConversations ==
    {<<>>} \cup UNION {[1..n -> Chars] : n \in 1..MaxMessages}

\* The names add_file_content is called with: the categories and a file name.
Labels == DOMAIN InitialTokenCounts
FileNames == Labels \cup {"researcher-1-output.md"}

\* ContextTracker(max_tokens)
max_tokens == TrackerMaxTokens

\* max(1, char_count // 4)
estimate_tokens(char_count) ==
    IF char_count \div 4 >= 1 THEN char_count \div 4 ELSE 1

RECURSIVE SumSeq(_)
SumSeq(q) == IF q = <<>> THEN 0 ELSE Head(q) + SumSeq(Tail(q))

add_conversation(tc, messages) ==
    [tc EXCEPT !.conversation = estimate_tokens(SumSeq(messages))]

add_file_content(tc, name, content) ==
    IF name \in DOMAIN tc
    THEN [tc EXCEPT ![name] = estimate_tokens(content)]
    ELSE [tc EXCEPT !.other = @ + estimate_tokens(content)]

\* sum(self.token_counts.values())
total_tokens(tc) ==
    tc.conversation + tc.latest_md + tc.critical_analysis_md
    + tc.user_context_md + tc.other

\* percentage() >= threshold, percentage() = (total / max_tokens) * 100.
\* (Python computes it in floating point; this is the comparison in exact
\* arithmetic.)
should_warn(tc, threshold) == total_tokens(tc) * 100 >= threshold * max_tokens

Thresholds == {25, 50, 80, 100}

\* The character counts divided by 4 that the calls so far attributed to each
\* category (a file name outside the categories adds to "other").
Quarters(r) ==
    IF r.op \in {"add_conversation", "add_file_content", "reset"}
    THEN r.quarters ELSE [l \in Labels |-> 0]

TrackerFrame ==
    UNCHANGED <<storeVars, wr, sessionVars, flowVars, drop_context_turns, session_messages,
                conversation_history, stream>>

AddConversation(messages) ==
    /\ token_counts' = add_conversation(token_counts, messages)
    /\ ret' = [chars |-> SumSeq(messages), name |-> "conversation",
               op |-> "add_conversation",
               quarters |-> [Quarters(ret) EXCEPT !.conversation = SumSeq(messages) \div 4]]
    /\ TrackerFrame

AddFileContent(name, content) ==
    /\ name \in Labels \/ token_counts.other + estimate_tokens(content) <= MaxOther
    /\ token_counts' = add_file_content(token_counts, name, content)
    /\ ret' = [chars |-> content, name |-> name, op |-> "add_file_content",
               quarters |-> IF name \in Labels
                            THEN [Quarters(ret) EXCEPT ![name] = content \div 4]
                            ELSE [Quarters(ret) EXCEPT !.other = @ + content \div 4]]
    /\ TrackerFrame

TrackerReset ==
    /\ token_counts' = InitialTokenCounts
    /\ ret' = [chars |-> 0, name |-> "none", op |-> "reset",
               quarters |-> [l \in Labels |-> 0]]
    /\ TrackerFrame

NextTracker ==
    \/ \E messages \in TrackedConversations : AddConversation(messages)
    \/ \E name \in FileNames, content \in Chars : AddFileContent(name, content)
    \/ TrackerReset

SpecTracker == Init /\ [][NextTracker]_vars

\* C29: after add_file_content(label, content) the count of the label is the
\* estimate of that content alone, for every label: the same label and content
\* added a second time leaves the total as it was; add_conversation replaces
\* the conversation's count.
C29_AddOverwrites ==
    [][/\ ret'.op = "add_file_content" /\ ret'.name \in Labels
            => token_counts'[ret'.name] = estimate_tokens(ret'.chars)
       /\ ret'.op = "add_file_content" /\ ret.op = "add_file_content"
          /\ ret'.name = ret.name /\ ret'.chars = ret.chars
            => total_tokens(token_counts') = total_tokens(token_counts)
       /\ ret'.op = "add_conversation"
            => token_counts'.conversation = estimate_tokens(ret'.chars)]_vars

\* C30: total_tokens() is the sum over the sources of the character count
\* divided by 4 (integer division), empty and short contents included, and
\* should_warn(t) is true exactly when total_tokens() * 100 >= t * max_tokens.
C30_TotalIsQuarterOfChars ==
    ret.op \in {"add_conversation", "add_file_content", "reset"} =>
        /\ total_tokens(token_counts)
             = ret.quarters.conversation + ret.quarters.latest_md
               + ret.quarters.critical_analysis_md + ret.quarters.user_context_md
               + ret.quarters.other
        /\ \A t \in Thresholds :
              should_warn(token_counts, t)
                <=> total_tokens(token_counts) * 100 >= t * max_tokens

\* --------------------------- SpecCompaction: estimate_compaction_savings
\* The conversations handed to the estimate, each message its content's length.
CompactConversations ==
    {<<>>} \cup UNION {[1..n -> Chars] : n \in 1..MaxCompactMessages}

\* len(messages) > keep_recent + 5
can_compact(messages, keep_recent) == Len(messages) > keep_recent + 5

\* messages[:-keep_recent]: the slice ends at index -keep_recent, and -0 is 0.
old_messages(messages, keep_recent) ==
    IF keep_recent = 0 THEN <<>>
    ELSE SubSeq(messages, 1, Len(messages) - keep_recent)

\* int(old_tokens * 0.7). (Python multiplies in floating point; the product is
\* the same as the exact one for every old_tokens below 90.)
estimate_compaction_savings(messages, keep_recent) ==
    IF ~can_compact(messages, keep_recent) THEN 0
    ELSE (estimate_tokens(SumSeq(old_messages(messages, keep_recent))) * 7) \div 10

EstimateCompactionSavings(messages, keep_recent) ==
    /\ ret = NoReturn
    /\ ret' = [keep_recent |-> keep_recent, messages |-> messages,
               op |-> "estimate_compaction_savings",
               result |-> estimate_compaction_savings(messages, keep_recent)]
    /\ UNCHANGED token_counts
    /\ TrackerFrame

NextCompaction ==
    \E messages \in CompactConversations, keep_recent \in 0..MaxKeepRecent :
        EstimateCompactionSavings(messages, keep_recent)

SpecCompaction == Init /\ [][NextCompaction]_vars

\* C31: estimate_compaction_savings(messages, keep_recent = N) is 70%, rounded
\* down, of the estimated tokens of all messages but the last N when there
\* are more than N + 5 messages, for every N >= 0, and 0 otherwise; it never
\* exceeds the estimated tokens of the whole conversation.
C31_SavingsOfAllButRecent ==
    ret.op = "estimate_compaction_savings" =>
        /\ Len(ret.messages) > ret.keep_recent + 5 =>
              ret.result
                = (estimate_tokens(SumSeq(SubSeq(ret.messages, 1,
                       Len(ret.messages) - ret.keep_recent))) * 7) \div 10
        /\ Len(ret.messages) <= ret.keep_recent + 5 => ret.result = 0
        /\ ret.result <= estimate_tokens(SumSeq(ret.messages))

\* ------------------------------ SpecMetadata: SessionMetadataGenerator
\* What a generator did with a file: file.read_text() brings the whole content
\* into memory; drop_path.stat() only the file system's metadata.
Access(p, how) == [how |-> how, path |-> p]

\* drop_path.glob("researcher-*-output.md")
researcher_files(f, d) == {p \in {OutputFile(d, r) : r \in Rids} : Exists(f, p)}

\* len(content) // 4 of each file, added up.
RECURSIVE TokensOf(_, _)
TokensOf(f, files) ==
    IF files = {} THEN 0
    ELSE LET p == CHOOSE q \in files : TRUE
         IN (f[p].data.chars \div 4) + TokensOf(f, files \ {p})

\* for file in researcher_files: content = file.read_text(encoding="utf-8")
summary_reads(f, d) == {Access(p, "read_text") : p \in researcher_files(f, d)}

generate_drop_summary(f, d) ==
    [drop_id |-> d, researchers_count |-> Cardinality(researcher_files(f, d)),
     total_tokens |-> TokensOf(f, researcher_files(f, d))]

\* user-context.md is read when it exists, then every researcher output.
drop_metadata_reads(f, d) ==
    (IF Exists(f, user_context_file(d))
     THEN {Access(user_context_file(d), "read_text")} ELSE {})
    \cup {Access(p, "read_text") : p \in researcher_files(f, d)}

generate_drop_metadata(f, d) ==
    [drop_id |-> d, has_user_context |-> Exists(f, user_context_file(d)),
     researchers |-> {[researcher_id |-> p.rid, token_count |-> f[p].data.chars \div 4] :
                         p \in researcher_files(f, d)},
     total_tokens |-> TokensOf(f, researcher_files(f, d))]

MetadataFrame ==
    UNCHANGED <<wr, sessionVars, flowVars, drop_context_turns, session_messages,
                conversation_history, stream, token_counts>>

\* A researcher saved its output of the given length; the trigger saved the
\* user context.
OutputWritten(d, r, chars) ==
    /\ now < MaxClock
    /\ now' = now + 1
    /\ fs' = write_text(fs, OutputFile(d, r), [chars |-> chars, version |-> now + 1])
    /\ drop_dirs' = drop_dirs \cup {d}
    /\ ret' = [op |-> "write_text"]
    /\ MetadataFrame

UserContextWritten(d) ==
    /\ now < MaxClock
    /\ now' = now + 1
    /\ fs' = write_text(fs, user_context_file(d), [chars |-> MaxChars, version |-> now + 1])
    /\ drop_dirs' = drop_dirs \cup {d}
    /\ ret' = [op |-> "write_text"]
    /\ MetadataFrame

\* generate_session_metadata: _generate_drop_summary of every drop folder.
GenerateSessionMetadata ==
    /\ ret' = [op |-> "generate_session_metadata",
               reads |-> UNION {summary_reads(fs, d) : d \in drop_dirs},
               result |-> {generate_drop_summary(fs, d) : d \in drop_dirs}]
    /\ UNCHANGED storeVars
    /\ MetadataFrame

GenerateDropMetadata(d) ==
    /\ d \in drop_dirs
    /\ ret' = [op |-> "generate_drop_metadata",
               reads |-> drop_metadata_reads(fs, d),
               result |-> {generate_drop_metadata(fs, d)}]
    /\ UNCHANGED storeVars
    /\ MetadataFrame

NextMetadata ==
    \/ \E d \in Drops, r \in Rids, chars \in Chars : OutputWritten(d, r, chars)
    \/ \E d \in Drops : UserContextWritten(d)
    \/ GenerateSessionMetadata
    \/ \E d \in Drops : GenerateDropMetadata(d)

SpecMetadata == Init /\ [][NextMetadata]_vars

\* C32: generating a session summary or a drop summary never reads the full
\* findings body of a researcher output: of an output file it takes only the
\* length or a bounded prefix, and the metadata.
C32_SummaryReadsNoFindings ==
    ret.op \in {"generate_session_metadata", "generate_drop_metadata"} =>
        \A a \in ret.reads :
            a.path.name = "output.md" => a.how \in {"stat", "read_prefix"}

\* C33: once the cancellation predicate is true no task starts an engine
\* invocation: not a task that has not called the engine yet, and not a retry
\* of a task whose earlier attempt failed.
C33_NoInvocationAfterCancel ==
    [][cancel_research /\ DOMAIN tasks' = DOMAIN tasks =>
          \A i \in DOMAIN tasks :
              /\ ~(tasks[i].pc # "engine" /\ tasks'[i].pc = "engine")
              /\ ~(tasks[i].pc = "engine" /\ tasks'[i].pc = "engine"
                   /\ tasks'[i].attempt > tasks[i].attempt)]_vars

\* C34: every error raised while a drop is created or run moves the drop to
\* failed, a failure of the user-context extraction after the drop directory
\* was made included: no drop directory exists without a persisted drop state.
C34_EveryDropHasState ==
    \A d \in drop_dirs : PersistedState(d) # "absent"

\* C36: extract_drop_plan is a side-channel request: whatever it returns, the
\* message history after the call is the sequence of messages it was before
\* the call; the plan request and the reply to it are not added as turns.
C36_PlanRequestLeavesHistory ==
    [][ret'.op = "extract_drop_plan" /\ ret' # ret
          => conversation_history' = conversation_history]_vars

\* --------------- SpecAutosave: st.session_state.messages and conversation-temp.md
\* The prompt typed, the reply streamed (each a content given by its lines).
Prompts == { <<"hello">>, <<"there">> }
ChatReplies == { <<"hi", "there">> }

ack_message == <<"Understood. Kicking off research now...">>

\* f"Research complete for {drop_id}. I've analyzed the findings ..."
summary_message(d) ==
    IF d = 1 THEN <<"Research complete for drop-1. Let's discuss what we learned.">>
    ELSE <<"Research complete for drop-N. Let's discuss what we learned.">>

\* len(line)
LineLen(line) ==
    CASE line = "hello" -> 5
      [] line = "hi" -> 2
      [] line = "there" -> 5
      [] line = "Understood. Kicking off research now..." -> 39
      [] OTHER -> 60

\* len(msg["content"]): the lines and the newlines between them.
RECURSIVE ContentLen(_)
ContentLen(content) ==
    IF content = <<>> THEN 0
    ELSE IF Len(content) = 1 THEN LineLen(content[1])
    ELSE LineLen(Head(content)) + 1 + ContentLen(Tail(content))

MessageLens(ms) == [k \in DOMAIN ms |-> ContentLen(ms[k].content)]

\* The replies to the plan request: a plan, or the marker.
PlanReplies == { <<"{", "members", "}">>, <<"NEEDS_CLARIFICATION">>, <<"text">> }

PlanReply(t) ==
    [object |-> [drop_id |-> "str", hypothesis |-> "str", researchers_assigned |-> "list"],
     tokens |-> t]

\* if plan is None: raise ValueError("HQ failed to generate research plan ...")
MutPlanNeverNone(plan) == FALSE
plan_is_None(plan) == plan.returned = "None"

\* What the turns below do not touch.
AutosaveFrame ==
    UNCHANGED <<wr, stream, ret, research_complete, cancel_research, tasks, statuses,
                assignment_failed, outputs, system_errors>>

\* A prompt with the research flag off (chat_interface.py:146-167): the user
\* message, the streamed reply, the assistant message, the autosave and the
\* context tracker.
ChatTurn(u, r) ==
    /\ pc = "idle"
    /\ Len(session_messages) < MaxSessionMessages
    /\ session_started' = TRUE
    /\ session_messages' = session_messages \o <<Msg("user", u), Msg("assistant", r)>>
    /\ conversation_history' = conversation_history \o <<Msg("user", u), Msg("assistant", r)>>
    /\ fs' = atomic_write(MainSaves(fs, FALSE), conversation_temp_file,
                          format_conversation_md(session_messages'))
    /\ token_counts' = add_conversation(token_counts, MessageLens(session_messages'))
    /\ UNCHANGED <<drop_dirs, now, drop_counter, current_plan, current_drop_id,
                   research_in_progress, pc, drop_context_turns>>
    /\ AutosaveFrame

\* The same prompt when chat_stream raises while the reply is streamed: the
\* script run ends at the exception.
ChatTurnRaises(u) ==
    /\ pc = "idle"
    /\ Len(session_messages) < MaxSessionMessages
    /\ session_started' = TRUE
    /\ session_messages' = Append(session_messages, Msg("user", u))
    /\ conversation_history' = conversation_history \o <<Msg("user", u), Msg("assistant", <<>>)>>
    /\ fs' = MainSaves(fs, FALSE)
    /\ UNCHANGED <<drop_dirs, now, drop_counter, current_plan, current_drop_id,
                   research_in_progress, pc, drop_context_turns, token_counts>>
    /\ AutosaveFrame

\* A prompt with the research flag on (chat_interface.py:107-144): the user
\* message and the acknowledgement are appended, _trigger_research_execution
\* runs, then st.rerun() or the except clause, then return.
ResearchPromptTurn(u, t) ==
    /\ pc = "idle"
    /\ Len(session_messages) < MaxSessionMessages
    /\ session_started' = TRUE
    /\ session_messages' = session_messages \o <<Msg("user", u), Msg("assistant", ack_message)>>
    /\ conversation_history' =
          conversation_history \o <<Msg("user", plan_request), Msg("assistant", t)>>
    /\ IF /\ extract_drop_plan(PlanReply(t)).raised = "no"
          /\ ~plan_is_None(extract_drop_plan(PlanReply(t)))
          /\ drop_counter < MaxDrops
       THEN LET d == drop_counter + 1
                f1 == write_text(MainSaves(fs, TRUE), user_context_file(d), [context_of |-> d])
                f2 == write_text(f1, history_file(d), [snapshot_of |-> d])
            IN  /\ drop_counter' = d
                /\ drop_dirs' = drop_dirs \cup {d}
                /\ current_plan' = [set |-> TRUE, ids |-> NoIdPlan(1)]
                /\ current_drop_id' = d
                /\ research_in_progress' = TRUE
                /\ fs' = update_drop_state(f2, d, "researching", now)
                /\ now' = Tick
                /\ pc' = "rerun"
       ELSE /\ fs' = MainSaves(fs, TRUE)
            /\ UNCHANGED <<drop_dirs, now, drop_counter, current_plan, current_drop_id,
                           research_in_progress, pc>>
    /\ UNCHANGED <<drop_context_turns, token_counts>>
    /\ AutosaveFrame

\* _execute_research_async from start to "Mark complete": the outputs, both
\* syntheses and the metadata are written, the drop is complete, its context is
\* loaded, the summary is appended, st.rerun().
ResearchRunCompletes ==
    /\ pc = "rerun"
    /\ research_in_progress
    /\ LET d == current_drop_id
           ids == AssignIds(current_plan.ids)
           f1 == MainSaves(fs, FALSE)
           f2 == [p \in Paths |->
                    IF \E i \in DOMAIN ids : p = OutputFile(d, ids[i])
                    THEN Full(Findings(d, CHOOSE i \in DOMAIN ids : p = OutputFile(d, ids[i])))
                    ELSE f1[p]]
           f3 == update_drop_state(f2, d, "synthesizing", now)
           f4 == save_latest(f3, [drops |-> (IF Exists(f3, latest_file)
                                             THEN f3[latest_file].data.drops ELSE {})
                                            \cup {d}])
           f5 == save_analysis(f4, d, [analysis_of |-> load_researcher_outputs(f4, d)])
           f6 == write_text(f5, session_metadata_file, [total_drops |-> drop_dirs])
           f7 == update_drop_state(f6, d, "complete", Tick)
       IN  /\ fs' = f7
           /\ drop_context_turns' = inject_drop_context(drop_context_turns, f7, drop_dirs, d)
           /\ session_messages' = Append(session_messages, Msg("assistant", summary_message(d)))
    /\ now' = Tick
    /\ research_in_progress' = FALSE
    /\ research_complete' = TRUE
    /\ current_drop_id' = 0
    /\ current_plan' = NoPlan
    /\ pc' = "idle"
    /\ UNCHANGED <<drop_dirs, wr, stream, ret, conversation_history, token_counts,
                   session_started, drop_counter, cancel_research, tasks, statuses,
                   assignment_failed, outputs, system_errors>>

\* _execute_research_async when a step raises: the except clause.
ResearchRunFails ==
    /\ pc = "rerun"
    /\ research_in_progress
    /\ fs' = update_drop_state(MainSaves(fs, FALSE), current_drop_id, "failed", now)
    /\ now' = Tick
    /\ research_in_progress' = FALSE
    /\ pc' = "idle"
    /\ UNCHANGED <<drop_dirs, drop_counter, current_plan, current_drop_id, session_started,
                   session_messages, conversation_history, drop_context_turns,
                   token_counts>>
    /\ AutosaveFrame

NextAutosave ==
    \/ \E u \in Prompts, r \in ChatReplies : ChatTurn(u, r)
    \/ \E u \in Prompts : ChatTurnRaises(u)
    \/ \E u \in Prompts, t \in PlanReplies : ResearchPromptTurn(u, t)
    \/ ResearchRunCompletes
    \/ ResearchRunFails

SpecAutosave == Init /\ [][NextAutosave]_vars

\* C35: the conversation is saved after every message appended to the session's
\* list (a chat turn, the acknowledgement of a research prompt, the summary of
\* a completed drop): whenever the flow is idle, load_conversation returns the
\* current message list.
C35_IdleConversationIsSaved ==
    pc = "idle" /\ session_messages # <<>>
        => load_conversation(fs) = Value(session_messages)

\* The step is a research prompt whose plan request was answered by t.
PlanRequestAnswered(t) ==
    /\ Len(conversation_history') = Len(conversation_history) + 2
    /\ conversation_history'[Len(conversation_history') - 1] = Msg("user", plan_request)
    /\ conversation_history'[Len(conversation_history')] = Msg("assistant", t)

C38_ReturnedOutputsAreOnDisk ==
    pc = "gathered" =>
        \A k \in DOMAIN outputs :
            fs[OutputFile(current_drop_id, outputs[k].researcher_id)]
                = Full(outputs[k].findings)

C40_UpdateKeepsIdentity ==
    /\ [](\A d \in Drops :
            fs[state_file(d)].kind = "full" => fs[state_file(d)].data.drop_id = d)
    /\ [][\A d \in Drops :
            fs'[state_file(d)] # fs[state_file(d)]
              => /\ wr.op = "update_drop_state" /\ wr.path = state_file(d)
                 /\ fs'[state_file(d)].kind = "full"
                 /\ fs'[state_file(d)].data.state = wr.content.state
                 /\ fs[state_file(d)].kind = "full"
                      => /\ fs'[state_file(d)].data.drop_id = fs[state_file(d)].data.drop_id
                         /\ fs'[state_file(d)].data.created_at
                              = fs[state_file(d)].data.created_at
                 /\ \A e \in Drops \ {d} : fs'[state_file(e)] = fs[state_file(e)]]_vars

\* drop-1 was updated a second time, to failed.
C40_Witness ==
    /\ fs[state_file(1)].kind = "full"
    /\ fs[state_file(1)].data.created_at = 0
    /\ fs[state_file(1)].data.updated_at = 1
    /\ fs[state_file(1)].data.state = "failed"
    /\ wr.step = "returned"

====
